---- MODULE Spec2Model ----
(***************************************************************************)
(* 4warder_bot: a moderated relay between three Matrix rooms.              *)
(*                                                                         *)
(* The model follows src/src/main.rs: the configuration (RawConfig ->      *)
(* Config), the start-up sequence of main/login_and_sync, and the two      *)
(* event handlers on_room_message and on_room_react.  A handler invocation *)
(* runs up to its next .await on a network call in one step; the network   *)
(* call completes (or fails) in a later step, so invocations interleave.   *)
(* The homeserver is the environment: it keeps the timeline of every room, *)
(* accepts or rejects requests, and streams events back to the bot.        *)
(*                                                                         *)
(* The approval emoji (U+2705, main.rs:145) is written "check_mark" and    *)
(* another emoji "thumbs_up".                                              *)
(***************************************************************************)
EXTENDS Naturals, Sequences, FiniteSets

\* ------------------------------------------------------------------ bounds
\* Events posted by users other than the bot.
MaxExternal == 2
\* Length of the homeserver's timeline (user events and the bot's sends).
MaxEvents == 4
\* Events the stream delivers a second time.
MaxRedeliveries == 1

\* --------------------------------------------------------------- universes
RoomIds == {"!a:hs", "!b:hs", "!c:hs"}
Bodies == {"hello", "world"}
ApprovalSignal == "check_mark"
Emojis == {ApprovalSignal, "thumbs_up"}

\* RawConfig's three room-id strings (main.rs:28-30).  One triple per way
\* the three ids can coincide (room ids are opaque, so renaming gives the
\* rest), and one per field that can fail RoomId::try_from.
RawConfigs ==
    { [input_room_id |-> "!a:hs", mod_room_id |-> "!b:hs", output_room_id |-> "!c:hs"],
      [input_room_id |-> "!a:hs", mod_room_id |-> "!a:hs", output_room_id |-> "!c:hs"],
      [input_room_id |-> "!a:hs", mod_room_id |-> "!b:hs", output_room_id |-> "!b:hs"],
      [input_room_id |-> "!a:hs", mod_room_id |-> "!b:hs", output_room_id |-> "!a:hs"],
      [input_room_id |-> "!a:hs", mod_room_id |-> "!a:hs", output_room_id |-> "!a:hs"],
      [input_room_id |-> "a-hs", mod_room_id |-> "!b:hs", output_room_id |-> "!c:hs"],
      [input_room_id |-> "!a:hs", mod_room_id |-> "b-hs", output_room_id |-> "!c:hs"],
      [input_room_id |-> "!a:hs", mod_room_id |-> "!b:hs", output_room_id |-> "c-hs"] }

VARIABLES
    raw,        \* the RawConfig read from 4warder.toml
    CONFIG,     \* the lazy static: NoConfig until first use, then the Config
    phase,      \* where main/login_and_sync stands
    fatal,      \* the error main ended with, "none" while it runs
    handlers,   \* the handlers registered on the client
    joined,     \* rooms the client holds as Room::Joined
    invited,    \* rooms the client holds as Room::Invited
    server,     \* the homeserver's timeline; an event's id is its index
    posted,     \* number of events posted by other users
    synced,     \* events of the timeline already streamed to the client
    redelivered,\* number of events streamed a second time
    inv         \* the handler invocations, in the order they were started

vars == <<raw, CONFIG, phase, fatal, handlers, joined, invited, server, posted, synced,
          redelivered, inv>>

NoConfig == [input_room_id |-> "", mod_room_id |-> "", output_room_id |-> ""]

\* ------------------------------------------------------------ configuration
\* RoomId::try_from: a room id is "!opaque:server".
ValidRoomId(s) == s \in RoomIds

\* TryFrom<RawConfig> for Config leaving output_room_id unvalidated.
ConfigTryFrom_SkipOutput(r) ==
    IF ~ValidRoomId(r.input_room_id) THEN [ok |-> FALSE, err |-> "input_room_id", config |-> NoConfig]
    ELSE IF ~ValidRoomId(r.mod_room_id) THEN [ok |-> FALSE, err |-> "mod_room_id", config |-> NoConfig]
    ELSE [ok |-> TRUE, err |-> "", config |-> r]

\* TryFrom<RawConfig> for Config: the first invalid field decides the error.
ConfigTryFrom(r) ==
    IF ~ValidRoomId(r.input_room_id) THEN [ok |-> FALSE, err |-> "input_room_id", config |-> NoConfig]
    ELSE IF ~ValidRoomId(r.mod_room_id) THEN [ok |-> FALSE, err |-> "mod_room_id", config |-> NoConfig]
    ELSE IF ~ValidRoomId(r.output_room_id) THEN [ok |-> FALSE, err |-> "output_room_id", config |-> NoConfig]
    ELSE [ok |-> TRUE, err |-> "", config |-> r]

\* ------------------------------------------------------------------ events
\* A timeline event.  kind "text"/"image" are m.room.message events with
\* MessageType::Text / MessageType::Image, "reaction" is m.reaction and
\* "state" a state event (a topic change, say), which is no message event.
\* cause = 0 for a user's event, else the index in inv of the handler
\* invocation that sent it.
TextEvent(room, body, cause) ==
    [room |-> room, kind |-> "text", body |-> body, emoji |-> "", rel |-> 0, cause |-> cause]
ImageEvent(room) ==
    [room |-> room, kind |-> "image", body |-> "img.png", emoji |-> "", rel |-> 0, cause |-> 0]
ReactionEvent(room, emoji, rel) ==
    [room |-> room, kind |-> "reaction", body |-> "", emoji |-> emoji, rel |-> rel, cause |-> 0]
StateEvent(room) ==
    [room |-> room, kind |-> "state", body |-> "", emoji |-> "", rel |-> 0, cause |-> 0]

\* A finished or suspended handler invocation.
\*   event   the id of the event it was started for
\*   pc      "send" / "fetch": suspended at that network call; "done"
\*   result  "pending", "Ok", "Matrix" or "Logic"
\*   calls   the client calls made so far, in order
\*   body    the text about to be sent; fetched: the event id fetched
\*   room    the Room value it was called with ("Joined" or "Left")
\*   fetch   how its event fetch ended ("" while there was none)
Invocation(handler, pc, result, calls, body, fetched) ==
    [handler |-> handler, event |-> 0, room |-> "", fetch |-> "", pc |-> pc,
     result |-> result, calls |-> calls, body |-> body, fetched |-> fetched]

Call(op, room) == [op |-> op, room |-> room]

\* -------------------------------------------------------------------- Init
Init ==
    /\ raw \in RawConfigs
    /\ CONFIG = NoConfig
    /\ phase = "main"
    /\ fatal = "none"
    /\ handlers = {}
    /\ joined = {}
    /\ invited = RoomIds
    /\ server = <<>>
    /\ posted = 0
    /\ synced = 0
    /\ redelivered = 0
    /\ inv = <<>>

\* ---------------------------------------------------------------- start-up
\* main.rs:244-248: the first use of CONFIG runs the lazy initializer, whose
\* unwrap() panics on a Config error.
LoadConfig ==
    /\ phase = "main"
    /\ LET r == ConfigTryFrom(raw) IN
         IF r.ok
         THEN /\ CONFIG' = r.config
              /\ phase' = "login"
              /\ fatal' = fatal
         ELSE /\ phase' = "fatal"
              /\ fatal' = "Config"
              /\ CONFIG' = CONFIG
    /\ UNCHANGED <<raw, handlers, joined, invited, server, posted, synced, redelivered, inv>>

\* main.rs:200-208: Url::parse, Client::new, login, sync_once; each `?`
\* ends login_and_sync, and main, with a Matrix error.  sync_once consumes
\* the timeline so far with no handler registered.
LoginAndSyncOnce(ok) ==
    /\ phase = "login"
    /\ IF ok
       THEN /\ phase' = "join"
            /\ fatal' = fatal
            /\ synced' = Len(server)
       ELSE /\ phase' = "fatal"
            /\ fatal' = "Matrix"
            /\ synced' = synced
    /\ UNCHANGED <<raw, CONFIG, handlers, joined, invited, server, posted, redelivered, inv>>

\* main.rs:211-215: the invited rooms that are one of the three configured.
RoomsToJoin == {r \in invited : r = CONFIG.input_room_id
                                  \/ r = CONFIG.mod_room_id
                                  \/ r = CONFIG.output_room_id}

\* main.rs:217-219: accept one invitation; a failure is fatal.
AcceptInvitation(r, ok) ==
    /\ phase = "join"
    /\ r \in RoomsToJoin
    /\ IF ok
       THEN /\ joined' = joined \cup {r}
            /\ invited' = invited \ {r}
            /\ UNCHANGED <<phase, fatal>>
       ELSE /\ phase' = "fatal"
            /\ fatal' = "Matrix"
            /\ UNCHANGED <<joined, invited>>
    /\ UNCHANGED <<raw, CONFIG, handlers, server, posted, synced, redelivered, inv>>

\* main.rs:221-223: both handlers are registered once the loop is over.
RegisterHandlers ==
    /\ phase = "join"
    /\ RoomsToJoin = {}
    /\ handlers' = {"on_room_message", "on_room_react"}
    /\ phase' = "token"
    /\ UNCHANGED <<raw, CONFIG, fatal, joined, invited, server, posted, synced, redelivered, inv>>

\* main.rs:225-235: sync_token() is an Option; None ends login_and_sync
\* with a Logic error, Some starts client.sync, which never returns.
StartSync(token) ==
    /\ phase = "token"
    /\ IF token = "Some"
       THEN /\ phase' = "sync"
            /\ fatal' = fatal
       ELSE /\ phase' = "fatal"
            /\ fatal' = "Logic"
    /\ UNCHANGED <<raw, CONFIG, handlers, joined, invited, server, posted, synced, redelivered, inv>>

\* -------------------------------------------------------------- homeserver
\* The events another user can post.  A reaction relates to an event
\* already in its room's timeline.
UserEvents ==
    {TextEvent(r, b, 0) : r \in RoomIds, b \in Bodies}
    \cup {ImageEvent(r) : r \in RoomIds}
    \cup {StateEvent(r) : r \in RoomIds}
    \cup {ev \in {ReactionEvent(r, e, t) : r \in RoomIds, e \in Emojis, t \in 1..Len(server)} :
            server[ev.rel].room = ev.room}

\* Another user posts an event.  The rooms start empty: sync_once consumes
\* earlier history unhandled.  A post commutes with the dispatch of the
\* events before it (Dispatch reads neither the events after its own nor
\* `posted`), so it is taken once the stream has caught up.
UserPost(ev) ==
    /\ phase = "sync"
    /\ posted < MaxExternal
    /\ synced = Len(server)
    /\ Len(server) < MaxEvents
    /\ server' = Append(server, ev)
    /\ posted' = posted + 1
    /\ UNCHANGED <<raw, CONFIG, phase, fatal, handlers, joined, invited, synced, redelivered, inv>>

\* The bot is removed from a room it had joined; the code never rejoins.
Kick(r) ==
    /\ phase = "sync"
    /\ r \in joined
    /\ joined' = joined \ {r}
    /\ UNCHANGED <<raw, CONFIG, phase, fatal, handlers, invited, server, posted, synced, redelivered, inv>>

\* The Room value the client hands to a handler for an event of room r.
RoomOf(r) == IF r \in joined THEN "Joined" ELSE "Left"

\* client.get_joined_room (main.rs:146).
GetJoinedRoom(r) == IF r \in joined THEN "Some" ELSE "None"

\* ---------------------------------------------------------------- handlers
\* on_room_message relaying to the output room.
OnRoomMessage_ToOutput(event, room) ==
    IF room = "Joined" /\ event.kind = "text" /\ event.room = CONFIG.input_room_id
    THEN Invocation("on_room_message", "send", "pending",
                    <<Call("room_send", CONFIG.output_room_id)>>, event.body, 0)
    ELSE Invocation("on_room_message", "done", "Ok", <<>>, "", 0)

\* on_room_message without the MessageType::Text pattern.
OnRoomMessage_AnyType(event, room) ==
    IF room = "Joined" /\ event.room = CONFIG.input_room_id
    THEN Invocation("on_room_message", "send", "pending",
                    <<Call("room_send", CONFIG.mod_room_id)>>, event.body, 0)
    ELSE Invocation("on_room_message", "done", "Ok", <<>>, "", 0)

\* on_room_message relaying text from every room, its own copies included.
OnRoomMessage_AnyRoom(event, room) ==
    IF room = "Joined" /\ event.kind = "text"
    THEN Invocation("on_room_message", "send", "pending",
                    <<Call("room_send", CONFIG.mod_room_id)>>, event.body, 0)
    ELSE Invocation("on_room_message", "done", "Ok", <<>>, "", 0)

\* on_room_message answering into the input room.
OnRoomMessage_ToInput(event, room) ==
    IF room = "Joined" /\ event.kind = "text" /\ event.room = CONFIG.input_room_id
    THEN Invocation("on_room_message", "send", "pending",
                    <<Call("room_send", CONFIG.input_room_id)>>, event.body, 0)
    ELSE Invocation("on_room_message", "done", "Ok", <<>>, "", 0)

\* on_room_message up to its .await (main.rs:106-129).
OnRoomMessage(event, room) ==
    IF room = "Joined"
    THEN IF event.kind = "text"
         THEN IF event.room = CONFIG.input_room_id
              THEN Invocation("on_room_message", "send", "pending",
                              <<Call("room_send", CONFIG.mod_room_id)>>, event.body, 0)
              ELSE Invocation("on_room_message", "done", "Ok", <<>>, "", 0)
         ELSE Invocation("on_room_message", "done", "Ok", <<>>, "", 0)
    ELSE Invocation("on_room_message", "done", "Ok", <<>>, "", 0)

\* on_room_message sending again after a failed send.
OnRoomMessageSent_Retry(iv, ok) ==
    IF ok THEN [iv EXCEPT !.pc = "done", !.result = "Ok"]
    ELSE [iv EXCEPT !.calls = Append(@, Call("room_send", CONFIG.mod_room_id))]

\* The `?` on room_send's result and the final Ok(()) (main.rs:129-134).
OnRoomMessageSent(iv, ok) ==
    IF ok THEN [iv EXCEPT !.pc = "done", !.result = "Ok"]
    ELSE [iv EXCEPT !.pc = "done", !.result = "Matrix"]

\* on_room_react without the emoji comparison.
OnRoomReact_AnyEmoji(event, room) ==
    IF event.room = CONFIG.mod_room_id
    THEN IF GetJoinedRoom(CONFIG.mod_room_id) = "None"
         THEN Invocation("on_room_react", "done", "Logic",
                         <<Call("get_joined_room", CONFIG.mod_room_id)>>, "", 0)
         ELSE Invocation("on_room_react", "fetch", "pending",
                         <<Call("get_joined_room", CONFIG.mod_room_id),
                           Call("event", CONFIG.mod_room_id)>>, "", event.rel)
    ELSE Invocation("on_room_react", "done", "Ok", <<>>, "", 0)

\* on_room_react without the room comparison.
OnRoomReact_AnyRoom(event, room) ==
    IF event.emoji = ApprovalSignal
    THEN IF GetJoinedRoom(CONFIG.mod_room_id) = "None"
         THEN Invocation("on_room_react", "done", "Logic",
                         <<Call("get_joined_room", CONFIG.mod_room_id)>>, "", 0)
         ELSE Invocation("on_room_react", "fetch", "pending",
                         <<Call("get_joined_room", CONFIG.mod_room_id),
                           Call("event", CONFIG.mod_room_id)>>, "", event.rel)
    ELSE Invocation("on_room_react", "done", "Ok", <<>>, "", 0)

\* on_room_react skipping an event some earlier invocation has fetched.
OnRoomReact_Dedup(event, room) ==
    IF event.emoji = ApprovalSignal /\ event.room = CONFIG.mod_room_id
       /\ \A j \in 1..Len(inv) : inv[j].fetched # event.rel
    THEN IF GetJoinedRoom(CONFIG.mod_room_id) = "None"
         THEN Invocation("on_room_react", "done", "Logic",
                         <<Call("get_joined_room", CONFIG.mod_room_id)>>, "", 0)
         ELSE Invocation("on_room_react", "fetch", "pending",
                         <<Call("get_joined_room", CONFIG.mod_room_id),
                           Call("event", CONFIG.mod_room_id)>>, "", event.rel)
    ELSE Invocation("on_room_react", "done", "Ok", <<>>, "", 0)

\* on_room_react fetching without asking for the joined room.
OnRoomReact_NoMembershipCheck(event, room) ==
    IF event.emoji = ApprovalSignal /\ event.room = CONFIG.mod_room_id
    THEN Invocation("on_room_react", "fetch", "pending",
                    <<Call("event", CONFIG.mod_room_id)>>, "", event.rel)
    ELSE Invocation("on_room_react", "done", "Ok", <<>>, "", 0)

\* on_room_react up to its first .await (main.rs:137-160).
OnRoomReact(event, room) ==
    LET reacted_to == event.rel
        emoji == event.emoji
    IN IF emoji = ApprovalSignal /\ event.room = CONFIG.mod_room_id
       THEN IF GetJoinedRoom(CONFIG.mod_room_id) = "None"
            THEN Invocation("on_room_react", "done", "Logic",
                            <<Call("get_joined_room", CONFIG.mod_room_id)>>, "", 0)
            ELSE Invocation("on_room_react", "fetch", "pending",
                            <<Call("get_joined_room", CONFIG.mod_room_id),
                              Call("event", CONFIG.mod_room_id)>>, "", reacted_to)
       ELSE Invocation("on_room_react", "done", "Ok", <<>>, "", 0)

\* on_room_react sending an empty text instead of the fetched body.
OnRoomReactFetched_WrongBody(iv, resp) ==
    IF resp.status # "ok" THEN [iv EXCEPT !.pc = "done", !.result = "Matrix"]
    ELSE IF resp.event.kind = "text"
         THEN [iv EXCEPT !.pc = "send",
                         !.calls = Append(@, Call("room_send", CONFIG.output_room_id))]
         ELSE IF resp.event.kind = "image"
              THEN [iv EXCEPT !.pc = "done", !.result = "Logic"]
              ELSE [iv EXCEPT !.pc = "done", !.result = "Ok"]

\* on_room_react returning Ok(()) without sending.
OnRoomReactFetched_NoSend(iv, resp) ==
    IF resp.status # "ok" THEN [iv EXCEPT !.pc = "done", !.result = "Matrix"]
    ELSE IF resp.event.kind = "image"
         THEN [iv EXCEPT !.pc = "done", !.result = "Logic"]
         ELSE [iv EXCEPT !.pc = "done", !.result = "Ok"]

\* on_room_react classifying a deserialization failure as a Logic error.
OnRoomReactFetched_DeserLogic(iv, resp) ==
    IF resp.status = "error" THEN [iv EXCEPT !.pc = "done", !.result = "Matrix"]
    ELSE IF resp.status = "undeserializable" THEN [iv EXCEPT !.pc = "done", !.result = "Logic"]
    ELSE IF resp.event.kind \in {"text", "image"}
         THEN IF resp.event.kind = "text"
              THEN [iv EXCEPT !.pc = "send",
                              !.calls = Append(@, Call("room_send", CONFIG.output_room_id)),
                              !.body = resp.event.body]
              ELSE [iv EXCEPT !.pc = "done", !.result = "Logic"]
         ELSE [iv EXCEPT !.pc = "done", !.result = "Ok"]

\* on_room_react from the fetch's result to its next .await or its return
\* (main.rs:160-189).  resp.status is "error" (the request failed),
\* "undeserializable" or "ok" with resp.event the fetched event.  An event
\* that is no AnyMessageEvent::RoomMessage falls through the `if let` to
\* the final Ok(()).
OnRoomReactFetched(iv, resp) ==
    IF resp.status = "error" THEN [iv EXCEPT !.pc = "done", !.result = "Matrix"]
    ELSE IF resp.status = "undeserializable" THEN [iv EXCEPT !.pc = "done", !.result = "Matrix"]
    ELSE IF resp.event.kind \in {"text", "image"}
         THEN IF resp.event.kind = "text"
              THEN [iv EXCEPT !.pc = "send",
                              !.calls = Append(@, Call("room_send", CONFIG.output_room_id)),
                              !.body = resp.event.body]
              ELSE [iv EXCEPT !.pc = "done", !.result = "Logic"]
         ELSE [iv EXCEPT !.pc = "done", !.result = "Ok"]

\* on_room_react reporting an error although its send went through.
OnRoomReactSent_ErrAfterSend(iv, ok) ==
    [iv EXCEPT !.pc = "done", !.result = "Matrix"]

\* map_err and `?` on room_send's result, then Ok(()) (main.rs:178-189).
OnRoomReactSent(iv, ok) ==
    IF ok THEN [iv EXCEPT !.pc = "done", !.result = "Ok"]
    ELSE [iv EXCEPT !.pc = "done", !.result = "Matrix"]

\* The handler registered for an event's type (main.rs:107, 138); none is
\* registered for state events.
HandlerFor(event) ==
    IF event.kind \in {"text", "image"} THEN "on_room_message"
    ELSE IF event.kind = "reaction" THEN "on_room_react"
    ELSE "none"

\* ------------------------------------------------------------ event stream
\* The client calls the handler of event id, which runs to its first
\* network call.
Handle(id) ==
    LET event == server[id]
        started == IF HandlerFor(event) = "on_room_message"
                   THEN OnRoomMessage(event, RoomOf(event.room))
                   ELSE OnRoomReact(event, RoomOf(event.room))
    IN [started EXCEPT !.event = id, !.room = RoomOf(event.room)]

\* An event loop that stops dispatching once a handler has returned Err.
Dispatch_StopOnError ==
    /\ phase = "sync"
    /\ synced < Len(server)
    /\ \A j \in 1..Len(inv) : inv[j].result \in {"pending", "Ok"}
    /\ inv' = IF HandlerFor(server[synced + 1]) \in handlers
              THEN Append(inv, Handle(synced + 1))
              ELSE inv
    /\ synced' = synced + 1
    /\ UNCHANGED <<raw, CONFIG, phase, fatal, handlers, joined, invited, server, posted, redelivered>>

\* client.sync (main.rs:235) streams the next event of the timeline to the
\* handler registered for it.  Nothing here looks at earlier invocations:
\* a handler's Result is only logged by the client.
Dispatch ==
    /\ phase = "sync"
    /\ synced < Len(server)
    /\ inv' = IF HandlerFor(server[synced + 1]) \in handlers
              THEN Append(inv, Handle(synced + 1))
              ELSE inv
    /\ synced' = synced + 1
    /\ UNCHANGED <<raw, CONFIG, phase, fatal, handlers, joined, invited, server, posted, redelivered>>

\* The stream is at-least-once: an event already streamed is delivered
\* again and its handler runs again.
Redeliver(id) ==
    /\ phase = "sync"
    /\ redelivered < MaxRedeliveries
    /\ id \in 1..synced
    /\ HandlerFor(server[id]) \in handlers
    /\ inv' = Append(inv, Handle(id))
    /\ redelivered' = redelivered + 1
    /\ UNCHANGED <<raw, CONFIG, phase, fatal, handlers, joined, invited, server, posted, synced>>

\* The room a suspended send is addressed to: its last call's room.
SendRoom(iv) == iv.calls[Len(iv.calls)].room

\* The homeserver accepts a send only from a member, and only while the
\* timeline has room.
CanSend(r) == r \in joined /\ Len(server) < MaxEvents

\* The room_send of on_room_message completes (main.rs:123-129).
RelaySendCompletes(i, ok) ==
    /\ i \in 1..Len(inv)
    /\ inv[i].handler = "on_room_message"
    /\ inv[i].pc = "send"
    /\ ok => CanSend(SendRoom(inv[i]))
    /\ server' = IF ok THEN Append(server, TextEvent(SendRoom(inv[i]), inv[i].body, i))
                 ELSE server
    /\ inv' = [inv EXCEPT ![i] = OnRoomMessageSent(inv[i], ok)]
    /\ UNCHANGED <<raw, CONFIG, phase, fatal, handlers, joined, invited, posted, synced, redelivered>>

\* The event fetch of on_room_react completes (main.rs:155-166).  The
\* request is scoped to the moderation room: an id of another room, or the
\* bot no longer being a member, fails it.
FetchCompletes(i, status) ==
    /\ i \in 1..Len(inv)
    /\ inv[i].handler = "on_room_react"
    /\ inv[i].pc = "fetch"
    /\ status # "error" => /\ CONFIG.mod_room_id \in joined
                           /\ server[inv[i].fetched].room = CONFIG.mod_room_id
    /\ inv' = [inv EXCEPT ![i] =
                 [OnRoomReactFetched(inv[i], [status |-> status,
                                              event |-> server[inv[i].fetched]])
                    EXCEPT !.fetch = status]]
    /\ UNCHANGED <<raw, CONFIG, phase, fatal, handlers, joined, invited, server, posted, synced, redelivered>>

\* The room_send of on_room_react completes (main.rs:172-179).
ApproveSendCompletes(i, ok) ==
    /\ i \in 1..Len(inv)
    /\ inv[i].handler = "on_room_react"
    /\ inv[i].pc = "send"
    /\ ok => CanSend(SendRoom(inv[i]))
    /\ server' = IF ok THEN Append(server, TextEvent(SendRoom(inv[i]), inv[i].body, i))
                 ELSE server
    /\ inv' = [inv EXCEPT ![i] = OnRoomReactSent(inv[i], ok)]
    /\ UNCHANGED <<raw, CONFIG, phase, fatal, handlers, joined, invited, posted, synced, redelivered>>

\* ------------------------------------------------------------ specification
Next ==
    \/ LoadConfig
    \/ \E ok \in BOOLEAN : LoginAndSyncOnce(ok)
    \/ \E r \in RoomIds, ok \in BOOLEAN : AcceptInvitation(r, ok)
    \/ RegisterHandlers
    \/ \E token \in {"Some", "None"} : StartSync(token)
    \/ \E ev \in UserEvents : UserPost(ev)
    \/ \E r \in RoomIds : Kick(r)
    \/ Dispatch
    \/ \E id \in 1..Len(server) : Redeliver(id)
    \/ \E i \in 1..Len(inv), ok \in BOOLEAN : RelaySendCompletes(i, ok)
    \/ \E i \in 1..Len(inv), status \in {"error", "undeserializable", "ok"} : FetchCompletes(i, status)
    \/ \E i \in 1..Len(inv), ok \in BOOLEAN : ApproveSendCompletes(i, ok)

Spec == Init /\ [][Next]_vars

\* The run C6 assumes: pairwise-distinct room ids, no failing start-up step
\* or network call, the bot a member of its rooms throughout, every event
\* delivered once, and every enabled handler step eventually taken.  A user
\* posts only while the timeline has room for the post and the bot's reply.
LiveInit == Init /\ raw = [input_room_id |-> "!a:hs", mod_room_id |-> "!b:hs",
                           output_room_id |-> "!c:hs"]

LiveNext ==
    \/ LoadConfig
    \/ LoginAndSyncOnce(TRUE)
    \/ \E r \in RoomIds : AcceptInvitation(r, TRUE)
    \/ RegisterHandlers
    \/ StartSync("Some")
    \/ \E ev \in UserEvents : 2 * (posted + 1) <= MaxEvents /\ UserPost(ev)
    \/ Dispatch
    \/ \E i \in 1..Len(inv) : RelaySendCompletes(i, TRUE)
    \/ \E i \in 1..Len(inv) : FetchCompletes(i, "ok")
    \/ \E i \in 1..Len(inv) : ApproveSendCompletes(i, TRUE)

LiveSpec ==
    /\ LiveInit
    /\ [][LiveNext]_vars
    /\ WF_vars(Dispatch)
    /\ \A i \in 1..MaxEvents : /\ WF_vars(RelaySendCompletes(i, TRUE))
                               /\ WF_vars(FetchCompletes(i, "ok"))
                               /\ WF_vars(ApproveSendCompletes(i, TRUE))

\* ------------------------------------------------------------------ claims
\* The invocations started so far, the event an invocation was started
\* for, and the timeline events an invocation has sent.
Invs == 1..Len(inv)
Ev(j) == server[inv[j].event]
Sent(j) == {k \in 1..Len(server) : server[k].cause = j}

\* Event m is a plain-text message of the moderation room.
IsModText(m) == server[m].kind = "text" /\ server[m].room = CONFIG.mod_room_id

\* Invocation j handles an approval reaction delivered from the moderation room.
IsApproval(j) ==
    /\ inv[j].handler = "on_room_react"
    /\ Ev(j).kind = "reaction"
    /\ Ev(j).emoji = ApprovalSignal
    /\ Ev(j).room = CONFIG.mod_room_id

\* Invocation j handles a text message delivered from the input room.
IsInputText(j) == Ev(j).kind = "text" /\ Ev(j).room = CONFIG.input_room_id

\* The bot's messages in the output room.
OutputMessages ==
    {k \in 1..Len(server) : server[k].cause # 0 /\ server[k].room = CONFIG.output_room_id}

\* Message k was sent by an approval invocation with the body of the text
\* message it fetched from the moderation room by the reaction's relates-to id.
SentByApproval(k) ==
    LET j == server[k].cause IN
      /\ IsApproval(j)
      /\ inv[j].event < k
      /\ inv[j].fetched = Ev(j).rel
      /\ inv[j].calls = <<Call("get_joined_room", CONFIG.mod_room_id),
                          Call("event", CONFIG.mod_room_id),
                          Call("room_send", CONFIG.output_room_id)>>
      /\ IsModText(inv[j].fetched)
      /\ server[k].kind = "text"
      /\ server[k].body = server[inv[j].fetched].body

\* ---- C1
\* C1 as stated: every message the bot has sent to the output room was sent
\* by an approval invocation, with the body of the text message fetched from
\* the moderation room, which is neither the input nor the output room.
C1_Original ==
    \A k \in OutputMessages :
        /\ SentByApproval(k)
        /\ CONFIG.mod_room_id \notin {CONFIG.input_room_id, CONFIG.output_room_id}

\* C1 (amended): when the moderation id differs from the input and the output
\* id, every message the bot has sent to the output room was sent by an
\* approval invocation triggered by an approval reaction delivered from the
\* moderation room, after that reaction, with the body of the text message it
\* fetched from the moderation room by the reaction's relates-to id.
C1_OutputOnlyByApproval ==
    CONFIG.mod_room_id \notin {CONFIG.input_room_id, CONFIG.output_room_id}
    => \A k \in OutputMessages : SentByApproval(k)

C1_Witness ==
    /\ CONFIG.mod_room_id \notin {CONFIG.input_room_id, CONFIG.output_room_id}
    /\ OutputMessages # {}

\* ---- C2
\* What a relay invocation does for a text message from the input room: at
\* most one send, addressed to the moderation room, and once it has returned
\* Ok after sending, exactly one new text message there with the same body.
RelaysOnce(j) ==
    /\ inv[j].handler = "on_room_message"
    /\ inv[j].calls \in {<<>>, <<Call("room_send", CONFIG.mod_room_id)>>}
    /\ Cardinality(Sent(j)) <= 1
    /\ (inv[j].result = "Ok" /\ inv[j].calls # <<>>) => Cardinality(Sent(j)) = 1
    /\ \A k \in Sent(j) : /\ server[k].room = CONFIG.mod_room_id
                          /\ server[k].kind = "text"
                          /\ server[k].body = Ev(j).body

\* C2 as stated: the relay of an input text message sends exactly one text
\* message with the same body to the moderation room and none to the output
\* room.
C2_Original ==
    \A j \in Invs : IsInputText(j) =>
        /\ RelaysOnce(j)
        /\ \A k \in Sent(j) : server[k].room # CONFIG.output_room_id

\* C2 (amended): the relay of an input text message, when its send succeeds,
\* sends exactly one text message with the same body to the moderation room,
\* and none to the output room when the output id differs from the
\* moderation id.
C2_RelayExactlyOne ==
    \A j \in Invs : IsInputText(j) =>
        /\ RelaysOnce(j)
        /\ CONFIG.mod_room_id # CONFIG.output_room_id
           => \A k \in Sent(j) : server[k].room # CONFIG.output_room_id

C2_Witness ==
    \E j \in Invs : /\ IsInputText(j)
                    /\ inv[j].result = "Ok"
                    /\ inv[j].calls # <<>>
                    /\ CONFIG.mod_room_id # CONFIG.output_room_id

\* ---- C3
\* C3: an approval reaction on a text message M of the moderation room whose
\* handler returned Ok made the membership check, one fetch and one send,
\* and exactly one text message with M's body is in the output room for it;
\* a reaction with another emoji makes no call and sends nothing.
C3_ApprovalSendsBody ==
    \A j \in Invs : inv[j].handler = "on_room_react" =>
        /\ (IsApproval(j) /\ IsModText(Ev(j).rel) /\ inv[j].result = "Ok") =>
              /\ inv[j].calls = <<Call("get_joined_room", CONFIG.mod_room_id),
                                  Call("event", CONFIG.mod_room_id),
                                  Call("room_send", CONFIG.output_room_id)>>
              /\ Cardinality(Sent(j)) = 1
              /\ \A k \in Sent(j) : /\ server[k].room = CONFIG.output_room_id
                                    /\ server[k].kind = "text"
                                    /\ server[k].body = server[Ev(j).rel].body
        /\ Ev(j).emoji # ApprovalSignal =>
              /\ inv[j].calls = <<>>
              /\ inv[j].result = "Ok"
              /\ Sent(j) = {}

C3_Witness ==
    \E j \in Invs : IsApproval(j) /\ IsModText(Ev(j).rel) /\ inv[j].result = "Ok"

\* ---- C4
\* The three configured room ids are pairwise distinct.
PairwiseDistinct ==
    /\ CONFIG.input_room_id # CONFIG.mod_room_id
    /\ CONFIG.mod_room_id # CONFIG.output_room_id
    /\ CONFIG.input_room_id # CONFIG.output_room_id

\* C4 as stated (for pairwise-distinct ids, where the claim is at its
\* strongest): an approval handler whose fetch succeeded with an event that
\* is no plain-text room message (no room message at all, or a message of
\* another type) returns a Logic error and sends nothing.
C4_LogicErrorOnNonText ==
    \A j \in Invs :
        ( /\ PairwiseDistinct
          /\ IsApproval(j)
          /\ inv[j].pc = "done"
          /\ inv[j].fetched # 0
          /\ inv[j].result # "Matrix"
          /\ server[inv[j].fetched].kind # "text" )
        => (inv[j].result = "Logic" /\ Sent(j) = {})

\* ---- C5
\* The approval invocations for event m that returned Ok.
OkApprovals(m) ==
    {j \in Invs : IsApproval(j) /\ Ev(j).rel = m /\ inv[j].result = "Ok"}

\* C5: for a text message M of the moderation room, the output room holds
\* exactly as many messages sent for M as approval reactions on M have been
\* handled successfully, each with M's body.
C5_EachApprovalSends ==
    \A m \in 1..Len(server) : IsModText(m) =>
        LET out == {k \in 1..Len(server) : server[k].cause \in OkApprovals(m)} IN
          /\ Cardinality(out) = Cardinality(OkApprovals(m))
          /\ \A k \in out : /\ server[k].room = CONFIG.output_room_id
                            /\ server[k].body = server[m].body

C5_Witness ==
    \E m \in 1..Len(server) :
        /\ IsModText(m)
        /\ Cardinality(OkApprovals(m)) = 2
        /\ Cardinality({k \in OutputMessages : server[k].body = server[m].body}) >= 2

\* ---- C6
\* Event id, a text message of the input room, has been delivered.
InputTextDelivered(id) ==
    /\ id <= synced
    /\ server[id].kind = "text"
    /\ server[id].room = CONFIG.input_room_id

\* The moderation room holds a later message with the body of event id,
\* sent by the handler of event id.
RelayedCopy(id) ==
    \E k \in 1..Len(server) :
        /\ k > id
        /\ server[k].cause \in Invs
        /\ inv[server[k].cause].event = id
        /\ server[k].room = CONFIG.mod_room_id
        /\ server[k].kind = "text"
        /\ server[k].body = server[id].body

\* Event id, an approval reaction of the moderation room on a relayed copy,
\* has been delivered.
ApprovalDelivered(id) ==
    /\ id <= synced
    /\ server[id].kind = "reaction"
    /\ server[id].emoji = ApprovalSignal
    /\ server[id].room = CONFIG.mod_room_id
    /\ IsModText(server[id].rel)
    /\ server[server[id].rel].cause # 0

\* The output room holds a later message with the body of the copy that
\* reaction id relates to, sent by the handler of event id.
Published(id) ==
    \E k \in 1..Len(server) :
        /\ k > id
        /\ server[k].cause \in Invs
        /\ inv[server[k].cause].event = id
        /\ server[k].room = CONFIG.output_room_id
        /\ server[k].kind = "text"
        /\ server[k].body = server[server[id].rel].body

\* C6: under LiveSpec, a text message delivered from the input room leads to
\* a new message with its body in the moderation room, and an approval
\* reaction on that copy delivered from the moderation room leads to a new
\* message with that body in the output room.
C6_EndToEnd ==
    \A id \in 1..MaxEvents :
        /\ InputTextDelivered(id) ~> RelayedCopy(id)
        /\ ApprovalDelivered(id) ~> Published(id)

C6_Witness ==
    \E id \in 1..Len(server) :
        /\ ApprovalDelivered(id)
        /\ Published(id)
        /\ inv[server[server[id].rel].cause].event < server[id].rel
        /\ InputTextDelivered(inv[server[server[id].rel].cause].event)

\* ---- C7
\* The handler of event j made no call, sent nothing and returned Ok at once.
Ignored(j) ==
    /\ inv[j].calls = <<>>
    /\ inv[j].pc = "done"
    /\ inv[j].result = "Ok"
    /\ Sent(j) = {}

\* C7 as stated: every event from the input room that is no plain-text
\* message, any reaction included, is ignored.
C7_Original ==
    \A j \in Invs : (Ev(j).room = CONFIG.input_room_id /\ Ev(j).kind # "text") => Ignored(j)

\* C7 (amended): when the input id differs from the moderation id, every
\* event from the input room that is no plain-text message is ignored: no
\* call, no send, no error; a non-text message is ignored whatever the ids.
C7_NonTextInputIgnored ==
    \A j \in Invs :
        ( /\ Ev(j).room = CONFIG.input_room_id
          /\ Ev(j).kind # "text"
          /\ (CONFIG.input_room_id # CONFIG.mod_room_id \/ Ev(j).kind = "image") )
        => Ignored(j)

C7_Witness ==
    \E j \in Invs, j2 \in Invs :
        /\ CONFIG.input_room_id # CONFIG.mod_room_id
        /\ Ev(j).room = CONFIG.input_room_id
        /\ Ev(j).kind = "image"
        /\ j < j2
        /\ IsInputText(j2)
        /\ inv[j2].result = "Ok"
        /\ Sent(j2) # {}

\* ---- C8
\* C8: a handler makes a call, sends or returns an error only for a text
\* message from the input room or an approval reaction from the moderation
\* room, and every delivery starts at most one handler invocation.
C8_RoutingSelective ==
    /\ \A j \in Invs :
          (inv[j].calls # <<>> \/ inv[j].result \in {"Matrix", "Logic"} \/ Sent(j) # {})
          => (IsInputText(j) \/ IsApproval(j))
    /\ Len(inv) <= synced + redelivered

C8_Witness ==
    \E j \in Invs, j2 \in Invs :
        /\ Ev(j).kind = "reaction"
        /\ Ev(j).emoji = ApprovalSignal
        /\ Ev(j).room # CONFIG.mod_room_id
        /\ Ignored(j)
        /\ Ev(j2).kind = "text"
        /\ Ev(j2).room # CONFIG.input_room_id
        /\ Ignored(j2)

\* ---- C9
\* Some handler invocation has returned an error.
SomeHandlerFailed == \E j \in Invs : inv[j].result \in {"Matrix", "Logic"}

\* C9 as stated: handler errors never stop the dispatch of later events, and
\* the process is fatal only before any handler is registered.
C9_Original ==
    /\ (phase = "sync" /\ synced < Len(server)) => ENABLED Dispatch
    /\ inv # <<>> => phase = "sync"
    /\ phase = "fatal" => handlers = {}

\* C9 (amended): handler errors never stop the dispatch of later events, and
\* the process is fatal only through an invalid configuration or a failure of
\* the start-up sequence, before any event has been dispatched; a Config or
\* Matrix failure precedes the registration of the handlers, a missing sync
\* token (a Logic error) follows it.
C9_HandlerErrorsNotFatal ==
    /\ (phase = "sync" /\ synced < Len(server)) => ENABLED Dispatch
    /\ inv # <<>> => phase = "sync"
    /\ phase = "fatal" => /\ synced = 0
                          /\ inv = <<>>
                          /\ fatal \in {"Config", "Matrix", "Logic"}
                          /\ fatal \in {"Config", "Matrix"} => handlers = {}
    /\ phase # "fatal" => fatal = "none"

C9_Witness ==
    /\ SomeHandlerFailed
    /\ phase = "sync"
    /\ synced < Len(server)

\* ---- C10
\* C10: the relay handler makes at most one send attempt; when the send
\* fails it returns a Matrix error and no message of it is in any room.
C10_RelayFailureNoRetry ==
    \A j \in Invs : inv[j].handler = "on_room_message" =>
        /\ Len(inv[j].calls) <= 1
        /\ inv[j].result # "Logic"
        /\ inv[j].result = "Matrix" =>
              /\ inv[j].pc = "done"
              /\ inv[j].calls = <<Call("room_send", CONFIG.mod_room_id)>>
              /\ Sent(j) = {}

C10_Witness ==
    \E j \in Invs : inv[j].handler = "on_room_message" /\ inv[j].result = "Matrix"

\* ---- C11
\* C11: an approval reaction delivered from the moderation room while the
\* client holds no joined room for it ends at once in a Logic error: the
\* membership check is the handler's only call, nothing is fetched and
\* nothing is sent.
C11_NotJoinedIsLogicError ==
    \A j \in Invs : (IsApproval(j) /\ inv[j].room = "Left") =>
        /\ inv[j].pc = "done"
        /\ inv[j].result = "Logic"
        /\ inv[j].calls = <<Call("get_joined_room", CONFIG.mod_room_id)>>
        /\ inv[j].fetched = 0
        /\ inv[j].fetch = ""
        /\ Sent(j) = {}

C11_Witness ==
    \E j \in Invs : IsApproval(j) /\ inv[j].room = "Left" /\ inv[j].result = "Logic"

\* ---- C12
\* Invocation j issued a call of the given kind.
Called(j, op) == \E n \in 1..Len(inv[j].calls) : inv[j].calls[n].op = op

\* C12: an approval invocation whose fetch of the reacted-to event failed,
\* or whose fetched event could not be deserialized, has returned a Matrix
\* error (not a Logic error) and has neither issued a send nor put a
\* message into any room.
C12_FetchFailureIsMatrixError ==
    \A j \in Invs : (IsApproval(j) /\ inv[j].fetch \in {"error", "undeserializable"}) =>
        /\ inv[j].pc = "done"
        /\ inv[j].result = "Matrix"
        /\ ~Called(j, "room_send")
        /\ Sent(j) = {}

C12_Witness ==
    /\ \E j \in Invs : IsApproval(j) /\ inv[j].fetch = "error" /\ inv[j].result = "Matrix"
    /\ \E j \in Invs : IsApproval(j) /\ inv[j].fetch = "undeserializable"
                                     /\ inv[j].result = "Matrix"

\* ---- C13
\* Invocation j returned an error.
Failed(j) == inv[j].result \in {"Matrix", "Logic"}

\* C13: a handler invocation that returned an error has finished, no message
\* of it is in any room, and it issued no call after the one that failed (a
\* room_send, if it issued one, is its last call).
C13_FailedInvocationSentNothing ==
    \A j \in Invs : Failed(j) =>
        /\ inv[j].pc = "done"
        /\ Sent(j) = {}
        /\ \A n \in 1..Len(inv[j].calls) :
              inv[j].calls[n].op = "room_send" => n = Len(inv[j].calls)

C13_Witness ==
    /\ \E j \in Invs : inv[j].handler = "on_room_message" /\ Failed(j)
    /\ \E j \in Invs : inv[j].handler = "on_room_react" /\ Failed(j)
                          /\ Called(j, "room_send")
    /\ \E k \in 1..Len(server) : server[k].cause # 0

\* ---- C14
\* All three configured room references are valid room ids.
AllRoomIdsValid ==
    /\ ValidRoomId(raw.input_room_id)
    /\ ValidRoomId(raw.mod_room_id)
    /\ ValidRoomId(raw.output_room_id)

\* The process is still at its first step, or has ended with a Config error.
NotStarted ==
    /\ phase \in {"main", "fatal"}
    /\ phase = "main" => fatal = "none"
    /\ phase = "fatal" => fatal = "Config"
    /\ CONFIG = NoConfig
    /\ synced = 0
    /\ joined = {}
    /\ handlers = {}
    /\ inv = <<>>

\* C14: when one of the three room references is no valid room id, the
\* process never gets past the configuration: it ends with a Config error
\* with no login, sync, join, handler registration or handler invocation.
\* Handlers are registered and invoked only with three valid ids.
C14_InvalidRoomIdIsFatal ==
    /\ ~AllRoomIdsValid => NotStarted
    /\ (handlers # {} \/ inv # <<>>) =>
          /\ AllRoomIdsValid
          /\ CONFIG = raw

C14_Witness ==
    /\ ~ValidRoomId(raw.output_room_id)
    /\ phase = "fatal"
    /\ fatal = "Config"

\* ---- C15
\* Whether Dispatch is enabled while an earlier invocation is suspended is
\* matrix_sdk's choice (its sync loop calls the handlers), and its source is
\* not part of src/.  Dispatch above has no such guard, which admits every
\* behaviour of a sequential dispatcher as well; a possibility statement
\* about overlapping invocations is therefore not decided by this model.

\* ---- C16
\* The bot is still a member of exactly the rooms it joined at start-up.
MembershipIntact ==
    joined = {CONFIG.input_room_id, CONFIG.mod_room_id, CONFIG.output_room_id}

\* The handler of invocation j's event run from start to end with nothing
\* else in between, given the responses j's own network calls got: how its
\* fetch ended, and whether the homeserver took its send.
RunAlone(j) ==
    LET started == Handle(inv[j].event)
        sent == Sent(j) # {}
    IN IF started.pc = "send" THEN OnRoomMessageSent(started, sent)
       ELSE IF started.pc = "fetch"
            THEN LET resp == [status |-> inv[j].fetch, event |-> server[started.fetched]]
                     fetched == [OnRoomReactFetched(started, resp)
                                   EXCEPT !.fetch = inv[j].fetch]
                 IN IF fetched.pc = "send" THEN OnRoomReactSent(fetched, sent)
                    ELSE fetched
            ELSE started

\* C16: however the network-call steps of the invocations interleave, a
\* finished invocation ended as its handler run alone on the same event with
\* the same responses ends (same result, same calls, same body), and what it
\* put on the timeline is at most one message, to the room and with the
\* body of its room_send.  No step changes the configuration.
C16_InterleavingIndependent ==
    /\ phase \notin {"main", "fatal"} => CONFIG = raw
    /\ MembershipIntact =>
         \A j \in Invs : inv[j].pc = "done" =>
            /\ inv[j] = RunAlone(j)
            /\ Cardinality(Sent(j)) <= 1
            /\ \A k \in Sent(j) :
                  /\ inv[j].result = "Ok"
                  /\ server[k].kind = "text"
                  /\ server[k].room = SendRoom(inv[j])
                  /\ server[k].body = inv[j].body

\* Two invocations overlapped: the one started later got its message onto
\* the timeline first, and an approval ran next to a relay.
C16_Witness ==
    /\ MembershipIntact
    /\ \E i, j \in Invs :
          /\ i < j
          /\ inv[i].pc = "done" /\ inv[j].pc = "done"
          /\ inv[i].handler # inv[j].handler
          /\ \E k \in Sent(i), l \in Sent(j) : l < k

\* ---- C17
\* The room a handler's sends go to.
Destination(handler) ==
    IF handler = "on_room_message" THEN CONFIG.mod_room_id ELSE CONFIG.output_room_id

\* C17: every room_send of on_room_message names mod_room_id and every
\* room_send of on_room_react names output_room_id, and the bot's messages
\* are in those rooms; with three pairwise distinct ids no room_send names
\* input_room_id and no message of the bot is in the input room, whether
\* the invocation succeeded or failed.
C17_SendDestinations ==
    /\ \A j \in Invs : \A n \in 1..Len(inv[j].calls) :
          inv[j].calls[n].op = "room_send" =>
             inv[j].calls[n].room = Destination(inv[j].handler)
    /\ \A k \in 1..Len(server) :
          server[k].cause # 0 => server[k].room = Destination(inv[server[k].cause].handler)
    /\ PairwiseDistinct =>
          /\ \A j \in Invs : \A n \in 1..Len(inv[j].calls) :
                inv[j].calls[n].op = "room_send" =>
                   inv[j].calls[n].room # CONFIG.input_room_id
          /\ \A k \in 1..Len(server) :
                server[k].room = CONFIG.input_room_id => server[k].cause = 0

C17_Witness ==
    /\ PairwiseDistinct
    /\ \E j \in Invs : inv[j].handler = "on_room_message" /\ Sent(j) # {}
    /\ \E j \in Invs : inv[j].handler = "on_room_react" /\ Sent(j) # {}
    /\ \E j \in Invs : IsInputText(j) /\ Failed(j)

\* ---- C18
\* The messages the bot has sent, and the deliveries of events that users
\* posted (each delivery of an event to its handler is one invocation).
BotSends == {k \in 1..Len(server) : server[k].cause # 0}
ExternalDeliveries == {j \in Invs : Ev(j).cause = 0}

\* C18: with three pairwise distinct ids, the delivery of a message that the
\* bot itself sent makes no call and sends nothing; every invocation sends
\* at most one message, and the bot's messages are no more than the
\* deliveries of users' events.
C18_NoFeedbackLoop ==
    PairwiseDistinct =>
        /\ \A j \in Invs : Ev(j).cause # 0 => Ignored(j)
        /\ \A j \in Invs : Cardinality(Sent(j)) <= 1
        /\ Cardinality(BotSends) <= Cardinality(ExternalDeliveries)

C18_Witness ==
    /\ PairwiseDistinct
    /\ \E j \in Invs : Ev(j).cause # 0 /\ Ev(j).room = CONFIG.mod_room_id
    /\ \E j \in Invs : Ev(j).cause # 0 /\ Ev(j).room = CONFIG.output_room_id
    /\ Cardinality(BotSends) = 2

\* ---- C19
\* Every event of the moderation room other than a reaction was sent by the
\* bot (with distinct ids, by on_room_message).
OnlyRelayPostsInMod ==
    \A m \in 1..Len(server) :
        (server[m].room = CONFIG.mod_room_id /\ server[m].kind # "reaction")
           => server[m].cause # 0

\* A text message with the body of message k was delivered from the input
\* room before k.
DeliveredFromInput(k) ==
    \E i \in Invs : /\ IsInputText(i)
                    /\ Ev(i).body = server[k].body
                    /\ inv[i].event < k

\* A copy in the moderation room with the body of message k received the
\* approval reaction before k.
ApprovedCopy(k) ==
    \E m, r \in 1..k :
        /\ m < r /\ r < k
        /\ IsModText(m)
        /\ server[m].cause # 0
        /\ server[m].body = server[k].body
        /\ server[r].kind = "reaction"
        /\ server[r].room = CONFIG.mod_room_id
        /\ server[r].emoji = ApprovalSignal
        /\ server[r].rel = m

\* All messages of the output room, whoever sent them.
OutputRoomMessages ==
    {k \in 1..Len(server) : /\ server[k].room = CONFIG.output_room_id
                            /\ server[k].kind \in {"text", "image"}}

\* C19 as stated: with pairwise distinct ids and only relayed copies in the
\* moderation room, every message in the output room has the body of a text
\* message delivered earlier from the input room and of an approved copy.
C19_Original ==
    (PairwiseDistinct /\ OnlyRelayPostsInMod) =>
        \A k \in OutputRoomMessages : DeliveredFromInput(k) /\ ApprovedCopy(k)

\* C19 (amended): with pairwise distinct ids and only relayed copies in the
\* moderation room, every message the bot has sent to the output room has
\* the body of a text message delivered earlier from the input room, and of
\* a copy in the moderation room that received the approval reaction.
C19_OutputProvenance ==
    (PairwiseDistinct /\ OnlyRelayPostsInMod) =>
        \A k \in OutputMessages :
            /\ DeliveredFromInput(k)
            /\ ApprovedCopy(k)
            /\ \E i \in Invs : /\ IsInputText(i)
                               /\ Ev(i).body = server[k].body
                               /\ i < server[k].cause

C19_Witness ==
    /\ PairwiseDistinct
    /\ OnlyRelayPostsInMod
    /\ \E k \in OutputMessages : DeliveredFromInput(k) /\ ApprovedCopy(k)

====
